---------------------------- MODULE Spec2Model ----------------------------
(***************************************************************************)
(* Vitals-to-risk pipeline of the ICU monitoring dashboard:                *)
(*   utils/simulator.py  (vital generator, dataset builder with its risk   *)
(*                        labelling formula, risk classifier)              *)
(*   utils/predictor.py  (lazy model cache, prediction, introspection)     *)
(*   train_model.py      (writes the model artifact)                       *)
(*                                                                         *)
(* Numbers.  Vitals are fixed-point numbers in tenths (36.8 is D(36,8)).   *)
(* Scores are exact rationals with denominator ONE: every quotient and     *)
(* weighted term of the labelling formula is a whole number of 1/ONE       *)
(* units, so no rounding happens in the model.                             *)
(***************************************************************************)
EXTENDS Integers, Sequences, FiniteSets, TLC

VARIABLES
    ret,           \* the last completed call of the sequential program: op, arguments, result
    clock,         \* datetime.now(), in seconds
    MODEL_CACHE,   \* predictor._MODEL_CACHE: None or the loaded model object
    artifact,      \* models/icu_risk_model.pkl on disk: "missing", "corrupt" or a model
    trained,       \* the model train_and_save fits (fixed: seeded data, random_state=42)
    loads,         \* number of joblib.load calls that returned an object so far
    pc,            \* per thread: position inside load_model / its caller
    call,          \* per thread: the operation in progress and its arguments
    loaded,        \* per thread: value of joblib.load(...) not yet stored
    model,         \* per thread: the local `model` returned by load_model
    attempts,      \* per thread: joblib.load calls made by the call in progress
    out,           \* per thread: outcome of the last finished call
    introspected,  \* whether get_feature_importances or get_model_info has returned so far
    load_failed,   \* whether a call has ended in a failed joblib.load so far
    kept,          \* a table generate_patient_dataset returned earlier, still held by its caller
    live_data,     \* st.session_state["live_data"] of one session: absent until the page first runs
    risk_sim,      \* the session's "Simulate Patient State" selection
    auto_refresh,  \* the session's "Auto Refresh" toggle
    np_state,      \* state of numpy's global generator, which the snapshot draws advance
    runs,          \* runs of the Live Monitoring page in the session so far
    appended,      \* every row the page has appended in the session, in arrival order
    shown          \* what the last run of the page displayed: the row it read and the prediction

vars == <<ret, clock, MODEL_CACHE, artifact, trained, loads,
          pc, call, loaded, model, attempts, out, introspected, load_failed, kept,
          live_data, risk_sim, auto_refresh, np_state, runs, appended, shown>>

simVars  == <<ret, clock, kept>>
predVars == <<MODEL_CACHE, artifact, trained, loads, pc, call, loaded, model, attempts, out,
             introspected, load_failed>>
liveVars == <<live_data, risk_sim, auto_refresh, np_state, runs, appended, shown>>

-----------------------------------------------------------------------------
(* Bounds of the model *)

ZBig        == 40      \* size of an outlying standard-normal draw
MaxClock    == 2       \* seconds the clock may advance
MaxPoints   == 2       \* n_points of generate_time_series
MaxPatients == 3       \* n_patients of generate_patient_dataset
MaxSeed     == 11      \* seeds 0..MaxSeed
NThreads    == 2       \* concurrent callers of the predictor
MaxEntropy  == 1       \* states 0..MaxEntropy numpy's global generator may start in
MaxRuns     == 62      \* runs of the Live Monitoring page in one session
MaxControl  == 2       \* the user changes the page's controls during the first MaxControl runs

-----------------------------------------------------------------------------
(* Fixed-point helpers *)

\* Python's None where a model object is expected: the object with no identity
None == [id |-> 0]

\* no call has completed / no call is in progress
Idle == [kind |-> "none", op |-> "none"]

\* whole.tenth as a number of tenths
D(whole, tenth) == whole * 10 + tenth

\* 1.0 as a score; divisible by every divisor and weight the formula uses
ONE == 2652 * 100000

\* x / d as a score, x and d in tenths (exact: d divides ONE for every d used)
Frac(x, d) == x * (ONE \div d)

\* w * s for a weight or threshold w given in hundredths
Times(w, s) == (s \div 100) * w

Abs(x) == IF x < 0 THEN -x ELSE x

Clip(x, lo, hi) == IF x < lo THEN lo ELSE IF x > hi THEN hi ELSE x

-----------------------------------------------------------------------------
(* utils/simulator.py *)

FEATURE_COLUMNS ==
    <<"heart_rate", "oxygen_level", "temperature", "blood_pressure", "respiratory_rate">>

RiskLevels == {"normal", "warning", "critical", "Normal", "safe", ""}

PatientIds == {1, 2}

\* standard-normal draws: far below, at and just above the mean, far above
ZSet == {-ZBig, 0, 1, ZBig}

\* rng.normal(mean, sd) for the standard-normal draw z; mean and sd in tenths
Normal(mean, sd, z) == mean + sd * z

\* mutant: only "critical" selects the critical tier, anything unlisted is normal
RawVitals_default_normal(risk_level, z) ==
    IF risk_level = "critical" THEN
        [heart_rate       |-> Normal(D(130,0), D(15,0), z[1]),
         oxygen_level     |-> Normal(D(88,0), D(3,0), z[2]),
         temperature      |-> Normal(D(39,0), D(0,6), z[3]),
         blood_pressure   |-> Normal(D(170,0), D(15,0), z[4]),
         respiratory_rate |-> Normal(D(30,0), D(4,0), z[5])]
    ELSE IF risk_level = "warning" THEN
        [heart_rate       |-> Normal(D(100,0), D(10,0), z[1]),
         oxygen_level     |-> Normal(D(93,0), D(2,0), z[2]),
         temperature      |-> Normal(D(37,8), D(0,4), z[3]),
         blood_pressure   |-> Normal(D(145,0), D(10,0), z[4]),
         respiratory_rate |-> Normal(D(22,0), D(3,0), z[5])]
    ELSE
        [heart_rate       |-> Normal(D(75,0), D(5,0), z[1]),
         oxygen_level     |-> Normal(D(97,0), D(1,0), z[2]),
         temperature      |-> Normal(D(36,8), D(0,3), z[3]),
         blood_pressure   |-> Normal(D(120,0), D(8,0), z[4]),
         respiratory_rate |-> Normal(D(16,0), D(2,0), z[5])]

\* the five draws (before clamping) selected by risk_level
RawVitals(risk_level, z) ==
    IF risk_level = "normal" THEN
        [heart_rate       |-> Normal(D(75,0), D(5,0), z[1]),
         oxygen_level     |-> Normal(D(97,0), D(1,0), z[2]),
         temperature      |-> Normal(D(36,8), D(0,3), z[3]),
         blood_pressure   |-> Normal(D(120,0), D(8,0), z[4]),
         respiratory_rate |-> Normal(D(16,0), D(2,0), z[5])]
    ELSE IF risk_level = "warning" THEN
        [heart_rate       |-> Normal(D(100,0), D(10,0), z[1]),
         oxygen_level     |-> Normal(D(93,0), D(2,0), z[2]),
         temperature      |-> Normal(D(37,8), D(0,4), z[3]),
         blood_pressure   |-> Normal(D(145,0), D(10,0), z[4]),
         respiratory_rate |-> Normal(D(22,0), D(3,0), z[5])]
    ELSE
        [heart_rate       |-> Normal(D(130,0), D(15,0), z[1]),
         oxygen_level     |-> Normal(D(88,0), D(3,0), z[2]),
         temperature      |-> Normal(D(39,0), D(0,6), z[3]),
         blood_pressure   |-> Normal(D(170,0), D(15,0), z[4]),
         respiratory_rate |-> Normal(D(30,0), D(4,0), z[5])]

\* mutant: the upper clamp of oxygen_level is forgotten
generate_vital_snapshot_noclip(patient_id, risk_level, now, z) ==
    LET raw == RawVitals(risk_level, z) IN
    [patient_id       |-> patient_id,
     timestamp        |-> now,
     heart_rate       |-> Clip(raw.heart_rate, D(40,0), D(200,0)),
     oxygen_level     |-> IF raw.oxygen_level < D(70,0) THEN D(70,0) ELSE raw.oxygen_level,
     temperature      |-> Clip(raw.temperature, D(34,0), D(42,0)),
     blood_pressure   |-> Clip(raw.blood_pressure, D(60,0), D(200,0)),
     respiratory_rate |-> Clip(raw.respiratory_rate, D(8,0), D(45,0))]

generate_vital_snapshot(patient_id, risk_level, now, z) ==
    LET raw == RawVitals(risk_level, z) IN
    [patient_id       |-> patient_id,
     timestamp        |-> now,
     heart_rate       |-> Clip(raw.heart_rate, D(40,0), D(200,0)),
     oxygen_level     |-> Clip(raw.oxygen_level, D(70,0), D(100,0)),
     temperature      |-> Clip(raw.temperature, D(34,0), D(42,0)),
     blood_pressure   |-> Clip(raw.blood_pressure, D(60,0), D(200,0)),
     respiratory_rate |-> Clip(raw.respiratory_rate, D(8,0), D(45,0))]


\* z-vectors the rows of a time series are drawn with: one draw shared by the five vitals
SeriesDraws == {<<z, z, z, z, z>> : z \in {-ZBig, 1, ZBig}}

\* pd.DataFrame(records): the columns are the keys of the records; no record, no column
FrameColumns(records) == UNION {DOMAIN records[k] : k \in DOMAIN records}

\* df.set_index(column): KeyError when the frame has no such column
set_index(records, column) ==
    IF column \in FrameColumns(records)
    THEN [kind |-> "return", result |-> records]
    ELSE [kind |-> "raise", error |-> "KeyError"]

\* the records in loop order, each stamped ts, made into a table indexed by timestamp
generate_time_series(n_points, interval_seconds, risk_level, now, zs) ==
    LET records ==
          [k \in 1..n_points |->
              LET i  == k - 1
                  ts == now - (n_points - i) * interval_seconds
                  snapshot == generate_vital_snapshot(1, risk_level, now, zs[k])
              IN [snapshot EXCEPT !.timestamp = ts]]
    IN set_index(records, "timestamp")

\* resolution of the uniform draws: u / Grid for u in 0..Grid
Grid == 10

\* np.random.default_rng(seed): position k of the bit stream the seed fixes
\* (a full-period congruential generator stands for PCG64)
RECURSIVE BitStream(_, _)
BitStream(seed, k) ==
    IF k = 0 THEN (seed * 37 + 11) % 64
    ELSE (BitStream(seed, k - 1) * 13 + 7) % 64

\* rng.uniform(low, high, n): the n values at stream positions first .. first+n-1
Uniform(seed, first, low, high, n) ==
    [i \in 1..n |->
        LET u == (BitStream(seed, first + i - 1) * (Grid + 1)) \div 64
        IN low + ((high - low) * u) \div Grid]

hr_score(heart_rate) ==
    [i \in DOMAIN heart_rate |-> Frac(Abs(heart_rate[i] - D(75,0)), D(85,0))]

\* mutant: oxygen is centred on the clinical normal 97 instead of 100
o2_score_centre97(oxygen_level) ==
    [i \in DOMAIN oxygen_level |-> Frac(Abs(D(97,0) - oxygen_level[i]), D(20,0))]

o2_score(oxygen_level) ==
    [i \in DOMAIN oxygen_level |-> Frac(D(100,0) - oxygen_level[i], D(20,0))]

temp_score(temperature) ==
    [i \in DOMAIN temperature |-> Frac(Abs(temperature[i] - D(36,8)), D(5,2))]

\* mutant: blood pressure is scaled by the half-width of its operating range
bp_score_range60(blood_pressure) ==
    [i \in DOMAIN blood_pressure |-> Frac(Abs(blood_pressure[i] - D(120,0)), D(60,0))]

bp_score(blood_pressure) ==
    [i \in DOMAIN blood_pressure |-> Frac(Abs(blood_pressure[i] - D(120,0)), D(100,0))]

rr_score(respiratory_rate) ==
    [i \in DOMAIN respiratory_rate |-> Frac(Abs(respiratory_rate[i] - D(16,0)), D(24,0))]

\* the weights of the five terms, in hundredths
Weights == <<25, 30, 15, 15, 15>>

\* the weighted sum before np.clip, elementwise over the five columns
weighted_sum(heart_rate, oxygen_level, temperature, blood_pressure, respiratory_rate) ==
    [i \in DOMAIN heart_rate |->
          Times(Weights[1], hr_score(heart_rate)[i])
        + Times(Weights[2], o2_score(oxygen_level)[i])
        + Times(Weights[3], temp_score(temperature)[i])
        + Times(Weights[4], bp_score(blood_pressure)[i])
        + Times(Weights[5], rr_score(respiratory_rate)[i])]

\* mutant: only the upper bound is clipped
risk_score_upper_only(heart_rate, oxygen_level, temperature, blood_pressure, respiratory_rate) ==
    LET s == weighted_sum(heart_rate, oxygen_level, temperature, blood_pressure,
                          respiratory_rate)
    IN [i \in DOMAIN s |-> IF s[i] > ONE THEN ONE ELSE s[i]]

\* mutant: the labels are shifted by one row against the vitals
risk_score_shifted(heart_rate, oxygen_level, temperature, blood_pressure, respiratory_rate) ==
    LET s == weighted_sum(heart_rate, oxygen_level, temperature, blood_pressure,
                          respiratory_rate)
        n == Len(s)
    IN [i \in DOMAIN s |-> Clip(s[(i % n) + 1], 0, ONE)]

\* the risk scorer: np.clip(weighted sum, 0.0, 1.0), elementwise
risk_score(heart_rate, oxygen_level, temperature, blood_pressure, respiratory_rate) ==
    LET s == weighted_sum(heart_rate, oxygen_level, temperature, blood_pressure,
                          respiratory_rate)
    IN [i \in DOMAIN s |-> Clip(s[i], 0, ONE)]

\* the columns of the table generate_patient_dataset returns, in order
DatasetColumns ==
    <<"heart_rate", "oxygen_level", "temperature", "blood_pressure", "respiratory_rate",
      "risk_score">>

\* pd.DataFrame of the six columns, one record per row
DataFrame(heart_rate, oxygen_level, temperature, blood_pressure, respiratory_rate, score) ==
    [i \in DOMAIN heart_rate |->
        [heart_rate       |-> heart_rate[i],
         oxygen_level     |-> oxygen_level[i],
         temperature      |-> temperature[i],
         blood_pressure   |-> blood_pressure[i],
         respiratory_rate |-> respiratory_rate[i],
         risk_score       |-> score[i]]]

\* mutant: the generator is seeded from the time of the call as well
generate_patient_dataset_ambient(n_patients, seed) ==
    LET s == seed + clock
        heart_rate       == Uniform(s, 0 * n_patients, D(50,0), D(160,0), n_patients)
        oxygen_level     == Uniform(s, 1 * n_patients, D(80,0), D(100,0), n_patients)
        temperature      == Uniform(s, 2 * n_patients, D(35,0), D(42,0), n_patients)
        blood_pressure   == Uniform(s, 3 * n_patients, D(80,0), D(180,0), n_patients)
        respiratory_rate == Uniform(s, 4 * n_patients, D(10,0), D(40,0), n_patients)
    IN DataFrame(heart_rate, oxygen_level, temperature, blood_pressure, respiratory_rate,
                 risk_score(heart_rate, oxygen_level, temperature, blood_pressure,
                            respiratory_rate))

\* mutant: the vitals are drawn over the clamp bounds of the snapshot generator
generate_patient_dataset_clamp_ranges(n_patients, seed) ==
    LET heart_rate       == Uniform(seed, 0 * n_patients, D(40,0), D(200,0), n_patients)
        oxygen_level     == Uniform(seed, 1 * n_patients, D(70,0), D(100,0), n_patients)
        temperature      == Uniform(seed, 2 * n_patients, D(34,0), D(42,0), n_patients)
        blood_pressure   == Uniform(seed, 3 * n_patients, D(60,0), D(200,0), n_patients)
        respiratory_rate == Uniform(seed, 4 * n_patients, D(8,0), D(45,0), n_patients)
    IN DataFrame(heart_rate, oxygen_level, temperature, blood_pressure, respiratory_rate,
                 risk_score(heart_rate, oxygen_level, temperature, blood_pressure,
                            respiratory_rate))

generate_patient_dataset(n_patients, seed) ==
    LET heart_rate       == Uniform(seed, 0 * n_patients, D(50,0), D(160,0), n_patients)
        oxygen_level     == Uniform(seed, 1 * n_patients, D(80,0), D(100,0), n_patients)
        temperature      == Uniform(seed, 2 * n_patients, D(35,0), D(42,0), n_patients)
        blood_pressure   == Uniform(seed, 3 * n_patients, D(80,0), D(180,0), n_patients)
        respiratory_rate == Uniform(seed, 4 * n_patients, D(10,0), D(40,0), n_patients)
    IN DataFrame(heart_rate, oxygen_level, temperature, blood_pressure, respiratory_rate,
                 risk_score(heart_rate, oxygen_level, temperature, blood_pressure,
                            respiratory_rate))

\* mutant: the band edges are exclusive on the wrong side
classify_risk_le(score) ==
    IF score <= Times(35, ONE) THEN "SAFE"
    ELSE IF score <= Times(65, ONE) THEN "WARNING"
    ELSE "CRITICAL"

\* mutant: the two thresholds are compared in the wrong order
classify_risk_swapped(score) ==
    IF score < Times(65, ONE) THEN "SAFE"
    ELSE IF score < Times(35, ONE) THEN "WARNING"
    ELSE "CRITICAL"

classify_risk(score) ==
    IF score < Times(35, ONE) THEN "SAFE"
    ELSE IF score < Times(65, ONE) THEN "WARNING"
    ELSE "CRITICAL"

-----------------------------------------------------------------------------
(* Inputs of the pure functions *)

\* n / 1000000 as a score, rounded down
Micro(n) == (n * 2652) \div 10

\* scores handed to classify_risk: the band edges, their neighbours on both sides
\* (0.649999 lies strictly between two representable scores: both are tried),
\* and values outside [0, 1]
ScoreInputs ==
    {-ONE, -1, 0, 1, Times(34, ONE),
     Times(35, ONE) - 1, Times(35, ONE), Times(35, ONE) + 1,
     Micro(649999), Micro(649999) + 1,
     Times(65, ONE) - 1, Times(65, ONE), Times(65, ONE) + 1,
     ONE - 1, ONE, ONE + 1, 2 * ONE}

\* vitals handed to the risk scorer: the ideal centres, the edges of the dataset
\* ranges and of the snapshot clamps, and values outside both
HrInputs   == {D(0,0), D(50,0), D(75,0), D(160,0), D(200,0), D(500,0)}
O2Inputs   == {D(0,0), D(70,0), D(80,0), D(97,0), D(100,0), D(120,0)}
TempInputs == {D(30,0), D(35,0), D(36,8), D(39,0), D(42,0), D(45,0)}
BpInputs   == {D(0,0), D(80,0), D(120,0), D(180,0), D(200,0)}
RrInputs   == {D(0,0), D(10,0), D(16,0), D(40,0), D(45,0)}

\* the means of the three tiers of generate_vital_snapshot
TierMeans ==
    {LET m == RawVitals(risk_level, <<0, 0, 0, 0, 0>>)
     IN <<m.heart_rate, m.oxygen_level, m.temperature, m.blood_pressure, m.respiratory_rate>> :
        risk_level \in {"normal", "warning", "critical"}}

\* 5-tuples of vitals handed to the labelling formula
VitalInputs ==
    (HrInputs \X O2Inputs \X TempInputs \X BpInputs \X RrInputs) \cup TierMeans

-----------------------------------------------------------------------------
(* The simulator's operations as steps of a sequential caller *)

\* the caller is done with the value returned
Discard ==
    /\ ret # Idle
    /\ ret' = Idle
    /\ UNCHANGED <<clock, kept>>
    /\ UNCHANGED predVars
    /\ UNCHANGED liveVars

Tick ==
    /\ ret = Idle
    /\ clock < MaxClock
    /\ clock' = clock + 1
    /\ UNCHANGED <<ret, kept>>
    /\ UNCHANGED predVars
    /\ UNCHANGED liveVars

GenerateVitalSnapshot ==
    /\ ret = Idle
    /\ \E patient_id \in PatientIds, risk_level \in RiskLevels, z \in [1..5 -> ZSet] :
          ret' = [kind       |-> "return",
                  op         |-> "generate_vital_snapshot",
                  risk_level |-> risk_level,
                  draws      |-> z,
                  raw        |-> RawVitals(risk_level, z),
                  result     |-> generate_vital_snapshot(patient_id, risk_level, clock, z)]
    /\ UNCHANGED <<clock, kept>>
    /\ UNCHANGED predVars
    /\ UNCHANGED liveVars

\* interval_seconds of the calls; any int is accepted
Intervals == {0, 1, 2}

GenerateTimeSeries ==
    /\ ret = Idle
    /\ \E n_points \in 0..MaxPoints, interval_seconds \in Intervals, risk_level \in RiskLevels :
         \E zs \in [1..n_points -> SeriesDraws] :
          LET df == generate_time_series(n_points, interval_seconds, risk_level, clock, zs)
              args == [op               |-> "generate_time_series",
                       n_points         |-> n_points,
                       interval_seconds |-> interval_seconds,
                       risk_level       |-> risk_level,
                       now              |-> clock,
                       raw              |-> [k \in 1..n_points |->
                                                RawVitals(risk_level, zs[k])]]
          IN ret' = IF df.kind = "return"
                    THEN [kind |-> "return", result |-> df.result] @@ args
                    ELSE [kind |-> "raise", error |-> df.error] @@ args
    /\ UNCHANGED <<clock, kept>>
    /\ UNCHANGED predVars
    /\ UNCHANGED liveVars

GeneratePatientDataset ==
    /\ ret = Idle
    /\ \E n_patients \in 0..MaxPatients, seed \in 0..MaxSeed :
          ret' = [kind       |-> "return",
                  op         |-> "generate_patient_dataset",
                  n_patients |-> n_patients,
                  seed       |-> seed,
                  columns    |-> DatasetColumns,
                  result     |-> generate_patient_dataset(n_patients, seed)]
    /\ UNCHANGED <<clock, kept>>
    /\ UNCHANGED predVars
    /\ UNCHANGED liveVars

\* the caller keeps the table just returned (train_and_save and compute_cv_scores
\* each hold a table built with the same arguments)
KeepDataset ==
    /\ ret.op = "generate_patient_dataset"
    /\ kept = Idle
    /\ kept' = ret
    /\ ret' = Idle
    /\ UNCHANGED <<clock>>
    /\ UNCHANGED predVars
    /\ UNCHANGED liveVars

ClassifyRisk ==
    /\ ret = Idle
    /\ \E score \in ScoreInputs :
          ret' = [kind       |-> "return",
                  op         |-> "classify_risk",
                  risk_score |-> score,
                  result     |-> classify_risk(score)]
    /\ UNCHANGED <<clock, kept>>
    /\ UNCHANGED predVars
    /\ UNCHANGED liveVars

\* the labelling formula applied to a one-row table of arbitrary vitals, and the
\* status the analytics page derives from the score
RiskScorer ==
    /\ ret = Idle
    /\ \E v \in VitalInputs :
          LET hr == v[1]
              o2 == v[2]
              t  == v[3]
              bp == v[4]
              rr == v[5]
              score == risk_score(<<hr>>, <<o2>>, <<t>>, <<bp>>, <<rr>>)[1]
          IN ret' = [kind             |-> "return",
                     op               |-> "risk_score",
                     heart_rate       |-> hr,
                     oxygen_level     |-> o2,
                     temperature      |-> t,
                     blood_pressure   |-> bp,
                     respiratory_rate |-> rr,
                     sum              |-> weighted_sum(<<hr>>, <<o2>>, <<t>>, <<bp>>, <<rr>>)[1],
                     result           |-> score,
                     status           |-> classify_risk(score)]
    /\ UNCHANGED <<clock, kept>>
    /\ UNCHANGED predVars
    /\ UNCHANGED liveVars

-----------------------------------------------------------------------------
(* The model artifact: an opaque regressor *)

\* feature vectors handed to predict_risk: the ideal centre and an implausible one
FeatureInputs ==
    {<<D(75,0), D(97,0), D(36,8), D(120,0), D(16,0)>>,
     <<D(500,0), D(120,0), -D(5,0), D(0,0), D(90,0)>>}

\* raw values model.predict may return: below 0, on and next to the band edges, above 1
RawOutputs ==
    {-(ONE \div 2), Times(34, ONE), Times(35, ONE),
     Times(65, ONE) - 1, Times(65, ONE), ONE + ONE \div 2}

\* feature_importances_ in hundredths, aligned to the fixed feature order
ImportanceVectors == {<<20, 40, 10, 15, 15>>, <<30, 10, 30, 20, 10>>}

\* train_and_save: X = df[FEATURE_COLUMNS].values; the table column behind each
\* position of a row of the feature matrix, in order
TrainingColumns ==
    [k \in 1..Len(FEATURE_COLUMNS) |->
        CHOOSE c \in {DatasetColumns[j] : j \in 1..Len(DatasetColumns)} : c = FEATURE_COLUMNS[k]]

\* RandomForestRegressor(n_estimators=200, max_depth=8, random_state=42) after fit;
\* what it predicts is not fixed by this repository
Models ==
    {[columns              |-> TrainingColumns,
      predict              |-> f,
      feature_importances_ |-> imp,
      n_estimators         |-> 200,
      max_depth            |-> 8,
      random_state         |-> 42] : f \in [FeatureInputs -> RawOutputs],
                                     imp \in ImportanceVectors}

Missing == [state |-> "missing"]
Corrupt == [state |-> "corrupt"]
Saved(m) == [state |-> "ok", model |-> m]

\* joblib.load of a readable artifact: a new object each time
Unpickle(file, id) ==
    [id                   |-> id,
     columns              |-> file.model.columns,
     predict              |-> file.model.predict,
     feature_importances_ |-> file.model.feature_importances_,
     n_estimators         |-> file.model.n_estimators,
     max_depth            |-> file.model.max_depth,
     random_state         |-> file.model.random_state]

-----------------------------------------------------------------------------
(* utils/predictor.py *)

\* mutant: the raw output is returned as it is
predict_risk_noclip(mdl, heart_rate, oxygen_level, temperature, blood_pressure, respiratory_rate) ==
    LET features == <<heart_rate, oxygen_level, temperature, blood_pressure,
                      respiratory_rate>>
        score == mdl.predict[features]
    IN [risk_score |-> score, status |-> classify_risk(score)]

\* mutant: the status is taken from the complement of the score
predict_risk_inverted(mdl, heart_rate, oxygen_level, temperature, blood_pressure, respiratory_rate) ==
    LET features == <<heart_rate, oxygen_level, temperature, blood_pressure,
                      respiratory_rate>>
        score == Clip(mdl.predict[features], 0, ONE)
    IN [risk_score |-> score, status |-> classify_risk(ONE - score)]

\* mutant: the first two positions of the feature vector are exchanged
feature_vector_swapped(heart_rate, oxygen_level, temperature, blood_pressure, respiratory_rate) ==
    <<oxygen_level, heart_rate, temperature, blood_pressure, respiratory_rate>>

\* predict_risk: features = np.array([[heart_rate, oxygen_level, temperature,
\* blood_pressure, respiratory_rate]])
feature_vector(heart_rate, oxygen_level, temperature, blood_pressure, respiratory_rate) ==
    <<heart_rate, oxygen_level, temperature, blood_pressure, respiratory_rate>>

\* model.predict(features)[0]; a vector the regressor was not tabulated on
\* still gets a number
ApplyModel(mdl, features) ==
    IF features \in DOMAIN mdl.predict THEN mdl.predict[features] ELSE Times(50, ONE)

predict_risk(mdl, heart_rate, oxygen_level, temperature, blood_pressure, respiratory_rate) ==
    LET features == feature_vector(heart_rate, oxygen_level, temperature, blood_pressure,
                                   respiratory_rate)
        score == Clip(ApplyModel(mdl, features), 0, ONE)
    IN [risk_score |-> score, status |-> classify_risk(score)]

\* rows of s ordered by importance, largest first; equal importances keep their order
RECURSIVE SortDescending(_)
SortDescending(s) ==
    IF Len(s) = 0 THEN <<>>
    ELSE LET best == CHOOSE i \in 1..Len(s) :
                        /\ \A j \in 1..Len(s) : s[j].importance <= s[i].importance
                        /\ \A j \in 1..(i - 1) : s[j].importance < s[i].importance
             rest == [j \in 1..(Len(s) - 1) |-> IF j < best THEN s[j] ELSE s[j + 1]]
         IN <<s[best]>> \o SortDescending(rest)

\* mutant: the rows are returned in feature order, not sorted
get_feature_importances_unsorted(mdl) ==
    LET importances == mdl.feature_importances_
    IN [i \in 1..Len(FEATURE_COLUMNS) |->
           [feature |-> FEATURE_COLUMNS[i], importance |-> importances[i]]]

get_feature_importances(mdl) ==
    LET importances == mdl.feature_importances_
        df == [i \in 1..Len(FEATURE_COLUMNS) |->
                  [feature |-> FEATURE_COLUMNS[i], importance |-> importances[i]]]
    IN SortDescending(df)

get_model_info(mdl) ==
    [type         |-> "RandomForestRegressor",
     n_estimators |-> mdl.n_estimators,
     max_depth    |-> mdl.max_depth,
     random_state |-> mdl.random_state]

\* def predict_risk(heart_rate, oxygen_level, temperature, blood_pressure,
\* respiratory_rate): the values of a call, by parameter name
Arguments(values) ==
    [heart_rate       |-> values[1],
     oxygen_level     |-> values[2],
     temperature      |-> values[3],
     blood_pressure   |-> values[4],
     respiratory_rate |-> values[5]]

Threads == 1..NThreads

\* the thread of a sequential program
Main == CHOOSE t \in Threads : \A u \in Threads : t <= u

Calls ==
    {[op |-> "load_model"], [op |-> "get_feature_importances"], [op |-> "get_model_info"]}
    \cup {[op |-> "predict_risk", features |-> f] : f \in FeatureInputs}

\* a caller enters predict_risk, get_feature_importances, get_model_info or load_model
Call(t) ==
    /\ pc[t] = "idle"
    /\ \E c \in Calls : call' = [call EXCEPT ![t] = c]
    /\ pc' = [pc EXCEPT ![t] = "check"]
    /\ attempts' = [attempts EXCEPT ![t] = 0]
    /\ model' = [model EXCEPT ![t] = None]
    /\ out' = [out EXCEPT ![t] = Idle]
    /\ UNCHANGED <<MODEL_CACHE, artifact, trained, loads, loaded, introspected>>
    /\ UNCHANGED load_failed
    /\ UNCHANGED simVars
    /\ UNCHANGED liveVars

\* mutant: the cache is not consulted
CacheCheck_always_load(t) ==
    /\ pc[t] = "check"
    /\ pc' = [pc EXCEPT ![t] = "load"]
    /\ UNCHANGED <<MODEL_CACHE, artifact, trained, loads, call, loaded, model, attempts, out,
                   introspected>>
    /\ UNCHANGED load_failed
    /\ UNCHANGED simVars
    /\ UNCHANGED liveVars

\* load_model: if _MODEL_CACHE is None
CacheCheck(t) ==
    /\ pc[t] = "check"
    /\ pc' = [pc EXCEPT ![t] = IF MODEL_CACHE = None THEN "load" ELSE "return"]
    /\ UNCHANGED <<MODEL_CACHE, artifact, trained, loads, call, loaded, model, attempts, out,
                   introspected>>
    /\ UNCHANGED load_failed
    /\ UNCHANGED simVars
    /\ UNCHANGED liveVars

\* mutant: a failed load is tried a second time before giving up
Load_retry(t) ==
    /\ pc[t] = "load"
    /\ IF artifact.state = "ok"
       THEN /\ attempts' = [attempts EXCEPT ![t] = @ + 1]
            /\ loaded' = [loaded EXCEPT ![t] = Unpickle(artifact, loads + 1)]
            /\ loads' = loads + 1
            /\ pc' = [pc EXCEPT ![t] = "store"]
            /\ UNCHANGED out
       ELSE /\ attempts' = [attempts EXCEPT ![t] = @ + 2]
            /\ out' = [out EXCEPT ![t] = [kind  |-> "raise",
                                          op    |-> call[t].op,
                                          error |-> artifact.state]]
            /\ pc' = [pc EXCEPT ![t] = "idle"]
            /\ UNCHANGED <<loaded, loads>>
    /\ UNCHANGED <<MODEL_CACHE, artifact, trained, call, model, introspected>>
    /\ load_failed' = (load_failed \/ artifact.state # "ok")
    /\ UNCHANGED simVars
    /\ UNCHANGED liveVars

\* mutant: a failed load leaves a placeholder in the cache, so it is not tried again
Load_remember_failure(t) ==
    /\ pc[t] = "load"
    /\ attempts' = [attempts EXCEPT ![t] = @ + 1]
    /\ IF artifact.state = "ok"
       THEN /\ loaded' = [loaded EXCEPT ![t] = Unpickle(artifact, loads + 1)]
            /\ loads' = loads + 1
            /\ pc' = [pc EXCEPT ![t] = "store"]
            /\ UNCHANGED <<out, MODEL_CACHE>>
       ELSE /\ out' = [out EXCEPT ![t] = [kind  |-> "raise",
                                          op    |-> call[t].op,
                                          error |-> artifact.state]]
            /\ MODEL_CACHE' = Unpickle(Saved(trained), -1)
            /\ pc' = [pc EXCEPT ![t] = "idle"]
            /\ UNCHANGED <<loaded, loads>>
    /\ UNCHANGED <<artifact, trained, call, model, introspected>>
    /\ load_failed' = (load_failed \/ artifact.state # "ok")
    /\ UNCHANGED simVars
    /\ UNCHANGED liveVars

\* load_model: joblib.load(_MODEL_PATH); its failure propagates through the caller
Load(t) ==
    /\ pc[t] = "load"
    /\ attempts' = [attempts EXCEPT ![t] = @ + 1]
    /\ IF artifact.state = "ok"
       THEN /\ loaded' = [loaded EXCEPT ![t] = Unpickle(artifact, loads + 1)]
            /\ loads' = loads + 1
            /\ pc' = [pc EXCEPT ![t] = "store"]
            /\ UNCHANGED out
       ELSE /\ out' = [out EXCEPT ![t] = [kind  |-> "raise",
                                          op    |-> call[t].op,
                                          error |-> artifact.state]]
            /\ pc' = [pc EXCEPT ![t] = "idle"]
            /\ UNCHANGED <<loaded, loads>>
    /\ UNCHANGED <<MODEL_CACHE, artifact, trained, call, model, introspected>>
    /\ load_failed' = (load_failed \/ artifact.state # "ok")
    /\ UNCHANGED simVars
    /\ UNCHANGED liveVars

\* load_model: _MODEL_CACHE = <the object loaded>
Store(t) ==
    /\ pc[t] = "store"
    /\ MODEL_CACHE' = loaded[t]
    /\ loaded' = [loaded EXCEPT ![t] = None]
    /\ pc' = [pc EXCEPT ![t] = "return"]
    /\ UNCHANGED <<artifact, trained, loads, call, model, attempts, out, introspected>>
    /\ UNCHANGED load_failed
    /\ UNCHANGED simVars
    /\ UNCHANGED liveVars

\* load_model: return _MODEL_CACHE
Return(t) ==
    /\ pc[t] = "return"
    /\ model' = [model EXCEPT ![t] = MODEL_CACHE]
    /\ IF call[t].op = "load_model"
       THEN /\ out' = [out EXCEPT ![t] = [kind   |-> "return",
                                          op     |-> "load_model",
                                          model  |-> MODEL_CACHE,
                                          result |-> MODEL_CACHE]]
            /\ pc' = [pc EXCEPT ![t] = "idle"]
       ELSE /\ pc' = [pc EXCEPT ![t] = "body"]
            /\ UNCHANGED out
    /\ UNCHANGED <<MODEL_CACHE, artifact, trained, loads, call, loaded, attempts, introspected>>
    /\ UNCHANGED load_failed
    /\ UNCHANGED simVars
    /\ UNCHANGED liveVars

\* what the body of predict_risk, get_feature_importances or get_model_info
\* returns for the call c, given the model load_model handed it
Outcome(mdl, c) ==
    IF c.op = "predict_risk" THEN
        LET features == feature_vector(c.features[1], c.features[2], c.features[3],
                                       c.features[4], c.features[5])
        IN [kind     |-> "return",
            op       |-> c.op,
            model    |-> mdl,
            features |-> c.features,
            args     |-> Arguments(c.features),
            vector   |-> features,
            raw      |-> ApplyModel(mdl, features),
            result   |-> predict_risk(mdl, c.features[1], c.features[2], c.features[3],
                                      c.features[4], c.features[5])]
    ELSE IF c.op = "get_feature_importances" THEN
        [kind   |-> "return",
         op     |-> c.op,
         model  |-> mdl,
         result |-> get_feature_importances(mdl)]
    ELSE
        [kind   |-> "return",
         op     |-> c.op,
         model  |-> mdl,
         result |-> get_model_info(mdl)]

\* mutant: predict_risk refuses vitals outside the clamp bounds of the generator
Body_validating(t) ==
    /\ pc[t] = "body"
    /\ out' = [out EXCEPT ![t] =
                 IF /\ call[t].op = "predict_risk"
                    /\ \/ call[t].features[1] < D(40,0) \/ call[t].features[1] > D(200,0)
                       \/ call[t].features[2] < D(70,0) \/ call[t].features[2] > D(100,0)
                 THEN [kind |-> "raise", op |-> call[t].op, error |-> "ValueError"]
                 ELSE Outcome(model[t], call[t])]
    /\ introspected' = (introspected \/ call[t].op # "predict_risk")
    /\ pc' = [pc EXCEPT ![t] = "idle"]
    /\ UNCHANGED <<MODEL_CACHE, artifact, trained, loads, call, loaded, model, attempts>>
    /\ UNCHANGED load_failed
    /\ UNCHANGED simVars
    /\ UNCHANGED liveVars

\* mutant: get_feature_importances sorts the model's own importances in place
Body_sort_in_place(t) ==
    /\ pc[t] = "body"
    /\ out' = [out EXCEPT ![t] = Outcome(model[t], call[t])]
    /\ MODEL_CACHE' =
          IF call[t].op = "get_feature_importances"
          THEN [MODEL_CACHE EXCEPT !.feature_importances_ =
                   [i \in 1..Len(FEATURE_COLUMNS) |->
                       get_feature_importances(model[t])[i].importance]]
          ELSE MODEL_CACHE
    /\ introspected' = (introspected \/ call[t].op # "predict_risk")
    /\ pc' = [pc EXCEPT ![t] = "idle"]
    /\ UNCHANGED <<artifact, trained, loads, call, loaded, model, attempts>>
    /\ UNCHANGED load_failed
    /\ UNCHANGED simVars
    /\ UNCHANGED liveVars

\* the rest of predict_risk, get_feature_importances or get_model_info
Body(t) ==
    /\ pc[t] = "body"
    /\ out' = [out EXCEPT ![t] = Outcome(model[t], call[t])]
    /\ introspected' = (introspected \/ call[t].op # "predict_risk")
    /\ pc' = [pc EXCEPT ![t] = "idle"]
    /\ UNCHANGED <<MODEL_CACHE, artifact, trained, loads, call, loaded, model, attempts>>
    /\ UNCHANGED load_failed
    /\ UNCHANGED simVars
    /\ UNCHANGED liveVars

\* train_model.py: joblib.dump(model, model_path)
train_and_save ==
    /\ artifact' = Saved(trained)
    /\ UNCHANGED <<MODEL_CACHE, trained, loads, pc, call, loaded, model, attempts, out,
                   introspected>>
    /\ UNCHANGED load_failed
    /\ UNCHANGED simVars
    /\ UNCHANGED liveVars

-----------------------------------------------------------------------------
(* pages/1_Live_Monitoring.py *)

BUFFER_SIZE == 60

\* the options of the "Simulate Patient State" selectbox
RiskSimOptions == {"normal", "warning", "critical"}

\* numpy's global generator: the state after one more draw
\* (a full-period congruential generator stands for the Mersenne Twister)
NextState(s) == (s * 13 + 7) % 64

\* the state after n draws
RECURSIVE Advance(_, _)
Advance(s, n) == IF n = 0 THEN s ELSE Advance(NextState(s), n - 1)

\* the standard-normal value the generator returns in state s
StandardNormal(s) == <<-ZBig, 0, 1, ZBig>>[(s % 4) + 1]

\* the five draws of one generate_vital_snapshot call starting in state s
GlobalDraws(s) == [k \in 1..5 |-> StandardNormal(Advance(s, k))]

\* pd.DataFrame(columns=[...]): a table without rows
EmptyFrame == <<>>

\* "live_data" not in st.session_state / the table stored under that key
NotInSession == [present |-> FALSE]
InSession(df) == [present |-> TRUE, rows |-> df]

\* the one-row table built from the snapshot
NewRow(snapshot) ==
    <<[timestamp        |-> snapshot.timestamp,
       heart_rate       |-> snapshot.heart_rate,
       oxygen_level     |-> snapshot.oxygen_level,
       temperature      |-> snapshot.temperature,
       blood_pressure   |-> snapshot.blood_pressure,
       respiratory_rate |-> snapshot.respiratory_rate]>>

\* pd.concat([df, new_row], ignore_index=True)
concat(df, new_row) == df \o new_row

\* mutant: the first n rows are kept
tail_first(df, n) == IF Len(df) <= n THEN df ELSE SubSeq(df, 1, n)

\* df.tail(n): the last n rows, all of them when there are fewer
tail(df, n) == IF Len(df) <= n THEN df ELSE SubSeq(df, Len(df) - n + 1, Len(df))

\* df.iloc[-1]
iloc_last(df) == df[Len(df)]

\* the user sets the selectbox and the toggle
SetControls ==
    /\ runs < MaxControl
    /\ \E r \in RiskSimOptions, a \in BOOLEAN :
          /\ <<r, a>> # <<risk_sim, auto_refresh>>
          /\ risk_sim' = r
          /\ auto_refresh' = a
    /\ UNCHANGED <<live_data, np_state, runs, appended, shown>>
    /\ UNCHANGED simVars
    /\ UNCHANGED predVars

\* one run of the page script: the buffer is created if the session has none, a
\* snapshot is appended, the buffer is cut to its last BUFFER_SIZE rows, and the
\* last row goes to predict_risk (which loads the model if the cache is empty);
\* with Auto Refresh on, the script sleeps 2 seconds and reruns
LiveRun ==
    /\ runs < MaxRuns
    /\ LET buffer   == IF live_data.present THEN live_data.rows ELSE EmptyFrame
           snapshot == generate_vital_snapshot(1, risk_sim, clock, GlobalDraws(np_state))
           new_row  == NewRow(snapshot)
           df       == tail(concat(buffer, new_row), BUFFER_SIZE)
           latest   == iloc_last(df)
           hit      == MODEL_CACHE # None
           ok       == hit \/ artifact.state = "ok"
           mdl      == IF hit THEN MODEL_CACHE ELSE Unpickle(artifact, loads + 1)
       IN /\ live_data' = InSession(df)
          /\ np_state' = Advance(np_state, 5)
          /\ appended' = appended \o new_row
          /\ MODEL_CACHE' = IF ok THEN mdl ELSE MODEL_CACHE
          /\ loads' = IF ok /\ ~hit THEN loads + 1 ELSE loads
          /\ load_failed' = (load_failed \/ ~ok)
          /\ shown' = IF ok
                      THEN [kind       |-> "return",
                            latest     |-> latest,
                            vector     |-> feature_vector(latest.heart_rate,
                                              latest.oxygen_level, latest.temperature,
                                              latest.blood_pressure, latest.respiratory_rate),
                            prediction |-> predict_risk(mdl, latest.heart_rate,
                                              latest.oxygen_level, latest.temperature,
                                              latest.blood_pressure, latest.respiratory_rate)]
                      ELSE [kind   |-> "raise",
                            latest |-> latest,
                            error  |-> artifact.state]
    /\ runs' = runs + 1
    /\ clock' = IF auto_refresh THEN clock + 2 ELSE clock
    /\ UNCHANGED <<risk_sim, auto_refresh>>
    /\ UNCHANGED <<ret, kept>>
    /\ UNCHANGED <<artifact, trained, pc, call, loaded, model, attempts, out, introspected>>

-----------------------------------------------------------------------------
(* Specifications *)

\* a session that has not opened the Live Monitoring page
SessionStart ==
    /\ live_data = NotInSession
    /\ risk_sim = "normal"
    /\ auto_refresh = TRUE
    /\ np_state = 0
    /\ runs = 0
    /\ appended = <<>>
    /\ shown = Idle

PredictorIdle ==
    /\ MODEL_CACHE = None
    /\ loads = 0
    /\ pc = [t \in Threads |-> "idle"]
    /\ call = [t \in Threads |-> Idle]
    /\ loaded = [t \in Threads |-> None]
    /\ model = [t \in Threads |-> None]
    /\ attempts = [t \in Threads |-> 0]
    /\ out = [t \in Threads |-> Idle]
    /\ introspected = FALSE
    /\ load_failed = FALSE

\* the simulator alone: no model has been trained
InitSim ==
    /\ ret = Idle
    /\ clock = 0
    /\ kept = Idle
    /\ trained = CHOOSE m \in Models : TRUE
    /\ artifact = Missing
    /\ PredictorIdle
    /\ SessionStart

NextSim ==
    \/ Tick
    \/ Discard
    \/ GenerateVitalSnapshot
    \/ GenerateTimeSeries
    \/ GeneratePatientDataset
    \/ ClassifyRisk
    \/ RiskScorer

SpecSim == InitSim /\ [][NextSim]_vars

\* dataset calls of one sequential program, one of their tables kept, with calls
\* of the classifier and the predictor before and between them as time passes
InitDataset ==
    /\ ret = Idle
    /\ clock = 0
    /\ kept = Idle
    /\ trained = CHOOSE m \in Models : TRUE
    /\ artifact = Saved(trained)
    /\ PredictorIdle
    /\ SessionStart

PredictorStep ==
    \/ Call(Main)
    \/ CacheCheck(Main)
    \/ Load(Main)
    \/ Store(Main)
    \/ Return(Main)
    \/ Body(Main)

NextDataset ==
    \/ (pc[Main] = "idle" /\ Tick)
    \/ (pc[Main] = "idle" /\ Discard)
    \/ (pc[Main] = "idle" /\ GeneratePatientDataset)
    \/ (pc[Main] = "idle" /\ KeepDataset)
    \/ (pc[Main] = "idle" /\ ClassifyRisk)
    \/ (ret = Idle /\ PredictorStep)

SpecDataset == InitDataset /\ [][NextDataset]_vars

\* the predictor: the artifact is absent, unreadable or the trained model
InitPredictor ==
    /\ ret = Idle
    /\ clock = 0
    /\ kept = Idle
    /\ trained \in Models
    /\ artifact \in {Missing, Corrupt, Saved(trained)}
    /\ PredictorIdle
    /\ SessionStart

\* one caller at a time
NextPredictor ==
    \/ train_and_save
    \/ Call(Main)
    \/ CacheCheck(Main)
    \/ Load(Main)
    \/ Store(Main)
    \/ Return(Main)
    \/ Body(Main)

SpecPredictor == InitPredictor /\ [][NextPredictor]_vars

\* callers on several threads, interleaved at the statements of load_model
NextConcurrent ==
    \/ train_and_save
    \/ \E t \in Threads :
         \/ Call(t)
         \/ CacheCheck(t)
         \/ Load(t)
         \/ Store(t)
         \/ Return(t)
         \/ Body(t)

SpecConcurrent == InitPredictor /\ [][NextConcurrent]_vars

\* one session of the Live Monitoring page, rerun after rerun; the artifact is
\* absent or the trained model
InitLive ==
    /\ ret = Idle
    /\ clock = 0
    /\ kept = Idle
    /\ trained = CHOOSE m \in Models : TRUE
    /\ artifact \in {Missing, Saved(trained)}
    /\ PredictorIdle
    /\ live_data = NotInSession
    /\ risk_sim = "normal"
    /\ auto_refresh = TRUE
    /\ np_state \in 0..MaxEntropy
    /\ runs = 0
    /\ appended = <<>>
    /\ shown = Idle

NextLive ==
    \/ SetControls
    \/ LiveRun

SpecLive == InitLive /\ [][NextLive]_vars

Spec == SpecSim

-----------------------------------------------------------------------------
(* Properties *)

WithinClampBounds(row) ==
    /\ D(40,0) <= row.heart_rate       /\ row.heart_rate       <= D(200,0)
    /\ D(70,0) <= row.oxygen_level     /\ row.oxygen_level     <= D(100,0)
    /\ D(34,0) <= row.temperature      /\ row.temperature      <= D(42,0)
    /\ D(60,0) <= row.blood_pressure   /\ row.blood_pressure   <= D(200,0)
    /\ D(8,0)  <= row.respiratory_rate /\ row.respiratory_rate <= D(45,0)

\* C1: whatever the risk_level and the normal draws, every snapshot returned by
\* generate_vital_snapshot and every row returned by generate_time_series has
\* heart_rate in [40, 200], oxygen_level in [70, 100], temperature in [34.0, 42.0],
\* blood_pressure in [60, 200] and respiratory_rate in [8, 45].
C1_VitalsWithinClampBounds ==
    /\ ret.op = "generate_vital_snapshot" => WithinClampBounds(ret.result)
    /\ (ret.op = "generate_time_series" /\ ret.kind = "return") =>
          \A k \in DOMAIN ret.result : WithinClampBounds(ret.result[k])

\* a snapshot of an unlisted risk_level whose draws left the bounds on both sides
C1_Witness ==
    /\ ret.op = "generate_vital_snapshot"
    /\ ret.risk_level = "Normal"
    /\ ret.raw.heart_rate < D(40,0)     /\ ret.result.heart_rate = D(40,0)
    /\ ret.raw.oxygen_level > D(100,0)  /\ ret.result.oxygen_level = D(100,0)
    /\ ret.raw.temperature > D(42,0)    /\ ret.result.temperature = D(42,0)

\* C2: classify_risk returns SAFE exactly when score < 0.35, WARNING exactly when
\* 0.35 <= score < 0.65 and CRITICAL exactly when score >= 0.65, for every score;
\* 0.34 is SAFE, 0.35 WARNING, 0.649999 WARNING and 0.65 CRITICAL.
C2_ClassifyBands ==
    ret.op = "classify_risk" =>
        LET score == ret.risk_score
            lo == 35 * (ONE \div 100)
            hi == 65 * (ONE \div 100)
        IN /\ ret.result \in {"SAFE", "WARNING", "CRITICAL"}
           /\ (ret.result = "SAFE") <=> (score < lo)
           /\ (ret.result = "WARNING") <=> (lo <= score /\ score < hi)
           /\ (ret.result = "CRITICAL") <=> (score >= hi)
           /\ score = 34 * (ONE \div 100) => ret.result = "SAFE"
           /\ score = lo => ret.result = "WARNING"
           /\ score \in {Micro(649999), Micro(649999) + 1} => ret.result = "WARNING"
           /\ score = hi => ret.result = "CRITICAL"

\* classify_risk was applied to the lower edge of the CRITICAL band
C2_Witness ==
    /\ ret.op = "classify_risk"
    /\ ret.risk_score = 65 * (ONE \div 100)
    /\ ret.result = "CRITICAL"

Predicted(t) == out[t].kind = "return" /\ out[t].op = "predict_risk"

\* C3: the risk_score returned by predict_risk lies in [0, 1] whatever the model
\* returns: a raw value below 0 becomes 0, one above 1 becomes 1, and one inside
\* the interval is returned unchanged.
C3_ScoreClamped ==
    \A t \in Threads : Predicted(t) =>
        LET raw == out[t].raw
            score == out[t].result.risk_score
        IN /\ 0 <= score /\ score <= ONE
           /\ raw < 0 => score = 0
           /\ raw > ONE => score = ONE
           /\ (0 <= raw /\ raw <= ONE) => score = raw

\* a prediction whose raw value was above 1
C3_Witness ==
    /\ Predicted(Main)
    /\ out[Main].raw > ONE
    /\ out[Main].result.risk_score = ONE

\* C4: in every result of predict_risk the status is the band of the returned
\* risk_score: SAFE below 0.35, WARNING from 0.35 to below 0.65, CRITICAL from 0.65.
C4_StatusMatchesScore ==
    \A t \in Threads : Predicted(t) =>
        LET score == out[t].result.risk_score
            status == out[t].result.status
        IN /\ (status = "SAFE") <=> (score < 35 * (ONE \div 100))
           /\ (status = "WARNING") <=>
                 (35 * (ONE \div 100) <= score /\ score < 65 * (ONE \div 100))
           /\ (status = "CRITICAL") <=> (score >= 65 * (ONE \div 100))

\* a prediction clamped from below 0, reported SAFE
C4_Witness ==
    /\ Predicted(Main)
    /\ out[Main].raw < 0
    /\ out[Main].result = [risk_score |-> 0, status |-> "SAFE"]

\* C5: under concurrent first access the artifact is loaded exactly once and all
\* callers receive the same model object.
C5_LoadedOnceAndShared ==
    /\ loads <= 1
    /\ \A t, u \in Threads :
          (out[t].kind = "return" /\ out[u].kind = "return") =>
              out[t].model.id = out[u].model.id

\* C6: with one caller at a time, only the first successful call reads the
\* artifact; once _MODEL_CACHE is set it keeps the same object, no call enters
\* the load again and nothing assigns it again.
C6_LoadedOnceThenFixed ==
    [][/\ loads' > loads => (loads = 0 /\ MODEL_CACHE = None)
       /\ MODEL_CACHE # None =>
             /\ MODEL_CACHE' = MODEL_CACHE
             /\ loads' = loads
             /\ pc'[Main] \notin {"load", "store"}]_vars

\* a later call answered from the cache without any load attempt
C6_Witness ==
    /\ MODEL_CACHE # None
    /\ loads = 1
    /\ out[Main].kind = "return"
    /\ attempts[Main] = 0
    /\ pc[Main] = "idle"

\* C7: a load that fails ends the calling operation at once with the failure
\* raised: nothing else is returned, the load was tried exactly once in that
\* call, and _MODEL_CACHE stays unset.
C7_LoadFailurePropagates ==
    [][(pc[Main] = "load" /\ pc'[Main] # "load" /\ artifact.state # "ok") =>
          /\ pc'[Main] = "idle"
          /\ out'[Main] = [kind |-> "raise", op |-> call[Main].op, error |-> artifact.state]
          /\ attempts'[Main] = 1
          /\ MODEL_CACHE' = None
          /\ loads' = loads]_vars

\* predict_risk ended with the load failure of a corrupt artifact
C7_Witness ==
    /\ out[Main] = [kind |-> "raise", op |-> "predict_risk", error |-> "corrupt"]
    /\ pc[Main] = "idle"
    /\ attempts[Main] = 1
    /\ MODEL_CACHE = None

RECURSIVE SumSeq(_)
SumSeq(s) == IF Len(s) = 0 THEN 0 ELSE s[1] + SumSeq(Tail(s))

\* the labelling formula of one row, term by term
RowLabel(row) ==
    Clip(  25 * Abs(row.heart_rate - D(75,0))       * (ONE \div (100 * D(85,0)))
         + 30 * (D(100,0) - row.oxygen_level)       * (ONE \div (100 * D(20,0)))
         + 15 * Abs(row.temperature - D(36,8))      * (ONE \div (100 * D(5,2)))
         + 15 * Abs(row.blood_pressure - D(120,0))  * (ONE \div (100 * D(100,0)))
         + 15 * Abs(row.respiratory_rate - D(16,0)) * (ONE \div (100 * D(24,0))),
         0, ONE)

C8_RowLabelledFromOwnVitals ==
    /\ SumSeq(Weights) = 100
    /\ ret.op = "generate_patient_dataset" =>
          /\ Len(ret.result) = ret.n_patients
          /\ \A i \in 1..ret.n_patients : ret.result[i].risk_score = RowLabel(ret.result[i])

\* a dataset of several rows with different labels
C8_Witness ==
    /\ ret.op = "generate_patient_dataset"
    /\ ret.n_patients >= 2
    /\ ret.result[1].risk_score > 0
    /\ ret.result[1].risk_score # ret.result[2].risk_score

ScoredAt(hr, o2, t, bp, rr) ==
    /\ ret.op = "risk_score"
    /\ ret.heart_rate = hr
    /\ ret.oxygen_level = o2
    /\ ret.temperature = t
    /\ ret.blood_pressure = bp
    /\ ret.respiratory_rate = rr

\* C9 as stated: the risk scorer gives exactly 0.0 for the vitals
\* (75, 97, 36.8, 120, 16).
C9_CentreScoresZero ==
    ScoredAt(D(75,0), D(97,0), D(36,8), D(120,0), D(16,0)) => ret.result = 0

\* C9, amended: for (75, 97, 36.8, 120, 16) the risk scorer gives exactly 0.045,
\* the oxygen term 0.30 * (100 - 97) / 20, the other four terms being zero; it
\* gives exactly 0.0 for (75, 100, 36.8, 120, 16).
C9_CentreScoresOxygenTerm ==
    /\ ScoredAt(D(75,0), D(97,0), D(36,8), D(120,0), D(16,0)) =>
          ret.result = 45 * (ONE \div 1000)
    /\ ScoredAt(D(75,0), D(100,0), D(36,8), D(120,0), D(16,0)) => ret.result = 0

\* the scorer applied to (75, 97, 36.8, 120, 16)
C9_Witness ==
    /\ ScoredAt(D(75,0), D(97,0), D(36,8), D(120,0), D(16,0))
    /\ ret.result = 45 * (ONE \div 1000)

\* C10: for every 5-tuple of vitals, also outside the generator's ranges, the
\* risk scorer's result lies in [0, 1], and score(200, 70, 42, 200, 45) = 1.0.
C10_ScoreWithinUnitInterval ==
    ret.op = "risk_score" =>
        /\ 0 <= ret.result /\ ret.result <= ONE
        /\ ScoredAt(D(200,0), D(70,0), D(42,0), D(200,0), D(45,0)) => ret.result = ONE

\* oxygen above 100 with every other vital at its centre: a negative sum, scored 0
C10_Witness ==
    /\ ScoredAt(D(75,0), D(120,0), D(36,8), D(120,0), D(16,0))
    /\ ret.result = 0

\* C12: the five features come in one order everywhere: they are the first five
\* columns of the dataset table (risk_score is the sixth), the columns of the
\* matrix the model is fitted on, the positions of the vector predict_risk hands
\* to the model, and FEATURE_COLUMNS; so the value a caller passes under a
\* feature's name reaches the model column fitted on that feature.
C12_FeatureOrderShared ==
    /\ ret.op = "generate_patient_dataset" =>
          /\ Len(ret.columns) = Len(FEATURE_COLUMNS) + 1
          /\ SubSeq(ret.columns, 1, Len(FEATURE_COLUMNS)) = FEATURE_COLUMNS
          /\ ret.columns[Len(ret.columns)] = "risk_score"
    /\ trained.columns = FEATURE_COLUMNS
    /\ \A t \in Threads :
          Predicted(t) =>
             /\ Len(out[t].vector) = Len(FEATURE_COLUMNS)
             /\ \A k \in 1..Len(FEATURE_COLUMNS) :
                   /\ out[t].vector[k] = out[t].args[FEATURE_COLUMNS[k]]
                   /\ out[t].vector[k] = out[t].args[out[t].model.columns[k]]

\* a prediction from five different values has returned and a dataset table with
\* rows is at hand
C12_Witness ==
    /\ ret.op = "generate_patient_dataset"
    /\ Len(ret.result) > 0
    /\ Predicted(Main)
    /\ Cardinality({out[Main].vector[k] : k \in 1..Len(FEATURE_COLUMNS)}) = Len(FEATURE_COLUMNS)

\* C13: generate_time_series returns exactly n_points rows whose timestamps are
\* strictly increasing in row order, every two consecutive rows exactly
\* interval_seconds apart.
C13_SeriesRowsSpaced ==
    ret.op = "generate_time_series" =>
        /\ ret.kind = "return"
        /\ Len(ret.result) = ret.n_points
        /\ \A k \in 1..(ret.n_points - 1) :
              /\ ret.result[k].timestamp < ret.result[k + 1].timestamp
              /\ ret.result[k + 1].timestamp - ret.result[k].timestamp = ret.interval_seconds

\* C14: no call of generate_vital_snapshot, generate_time_series (n_points = 0
\* included) or generate_patient_dataset ends in an error: each returns a result.
C14_GenerationNeverFails ==
    ret.op \in {"generate_vital_snapshot", "generate_time_series",
                "generate_patient_dataset"} => ret.kind = "return"

Introspected(t, op) == out[t].kind = "return" /\ out[t].op = op

\* C15: get_feature_importances returns exactly five rows, one for each of
\* heart_rate, oxygen_level, temperature, blood_pressure and respiratory_rate with
\* no name missing or twice; each name carries the model's importance at that
\* name's position in the feature order, and the rows are in descending order of
\* importance.
C15_ImportancesNamedAndSorted ==
    \A t \in Threads : Introspected(t, "get_feature_importances") =>
        LET df == out[t].result
            importances == out[t].model.feature_importances_
        IN /\ Len(df) = 5
           /\ \A name \in {"heart_rate", "oxygen_level", "temperature", "blood_pressure",
                           "respiratory_rate"} :
                 Cardinality({k \in 1..Len(df) : df[k].feature = name}) = 1
           /\ \A k \in 1..Len(df) :
                 \E i \in 1..Len(FEATURE_COLUMNS) :
                    /\ FEATURE_COLUMNS[i] = df[k].feature
                    /\ df[k].importance = importances[i]
           /\ \A k \in 1..(Len(df) - 1) : df[k].importance >= df[k + 1].importance

\* importances that are not in order as fitted, two of them equal, have been returned
C15_Witness ==
    /\ Introspected(Main, "get_feature_importances")
    /\ out[Main].model.feature_importances_[1] < out[Main].model.feature_importances_[2]
    /\ out[Main].result[1].feature = "oxygen_level"
    /\ out[Main].result[3].importance = out[Main].result[4].importance

\* C16: get_feature_importances and get_model_info never change what predict_risk
\* returns and leave the cached model as it was: the step that finishes either of
\* them keeps _MODEL_CACHE, object and fields, and every prediction, made before
\* or after any number of them, is the clamped and classified output of the
\* trained model for the caller's five values.
C16_IntrospectionReadOnly ==
    /\ [][\A t \in Threads :
            (pc[t] = "body" /\ call[t].op # "predict_risk") => MODEL_CACHE' = MODEL_CACHE]_vars
    /\ [](\A t \in Threads :
            Predicted(t) =>
               LET score == Clip(trained.predict[out[t].features], 0, ONE)
               IN out[t].result = [risk_score |-> score, status |-> classify_risk(score)])

\* a prediction has returned after an introspection call, from the one model
\* object loaded
C16_Witness ==
    /\ introspected
    /\ Predicted(Main)
    /\ loads = 1
    /\ MODEL_CACHE = Unpickle(Saved(trained), 1)
    /\ out[Main].result.status = "CRITICAL"

\* C17: predict_risk never rejects or alters its inputs.  Whatever the five
\* values (heart_rate 500, oxygen_level 120, a negative temperature), once the
\* model is loaded the call returns; the vector given to the model holds the five
\* values as passed, the raw output is the model's answer for exactly them, and
\* only that output is clamped.  A predict_risk call ends in an error only when
\* the artifact could not be loaded.
C17_InputsPassedThrough ==
    /\ [][\A t \in Threads :
            (pc[t] = "body" /\ call[t].op = "predict_risk") =>
               /\ out'[t].kind = "return"
               /\ out'[t].features = call[t].features]_vars
    /\ [](\A t \in Threads :
            /\ Predicted(t) =>
                  /\ out[t].vector = out[t].features
                  /\ out[t].raw = out[t].model.predict[out[t].features]
                  /\ out[t].result.risk_score = Clip(out[t].raw, 0, ONE)
            /\ (out[t].op = "predict_risk" /\ out[t].kind = "raise") =>
                  out[t].error \in {Missing.state, Corrupt.state})

\* heart_rate 500, oxygen_level 120 and a negative temperature went to the model
\* as they were; its answer above 1 came back as 1
C17_Witness ==
    /\ Predicted(Main)
    /\ out[Main].vector = <<D(500,0), D(120,0), -D(5,0), D(0,0), D(90,0)>>
    /\ out[Main].raw > ONE
    /\ out[Main].result.risk_score = ONE

\* C18: the risk scorer applied to the means of the critical tier (heart_rate 130,
\* oxygen_level 88, temperature 39.0, blood_pressure 170, respiratory_rate 30)
\* gives a score that classify_risk maps to WARNING or CRITICAL, never to SAFE.
C18_CriticalMeansNotSafe ==
    ScoredAt(D(130,0), D(88,0), D(39,0), D(170,0), D(30,0)) =>
        /\ ret.status = classify_risk(ret.result)
        /\ ret.status \in {"WARNING", "CRITICAL"}
        /\ ret.status # "SAFE"

\* the means of the critical tier have been scored: between 0.56 and 0.57, WARNING
C18_Witness ==
    /\ ScoredAt(D(130,0), D(88,0), D(39,0), D(170,0), D(30,0))
    /\ <<ret.heart_rate, ret.oxygen_level, ret.temperature, ret.blood_pressure,
         ret.respiratory_rate>> \in TierMeans
    /\ Times(56, ONE) < ret.result
    /\ ret.result < Times(57, ONE)
    /\ ret.status = "WARNING"

WithinOperatingRanges(row) ==
    /\ D(50,0) <= row.heart_rate       /\ row.heart_rate       <= D(160,0)
    /\ D(80,0) <= row.oxygen_level     /\ row.oxygen_level     <= D(100,0)
    /\ D(35,0) <= row.temperature      /\ row.temperature      <= D(42,0)
    /\ D(80,0) <= row.blood_pressure   /\ row.blood_pressure   <= D(180,0)
    /\ D(10,0) <= row.respiratory_rate /\ row.respiratory_rate <= D(40,0)

\* C19: generate_patient_dataset(n_patients, seed) returns exactly n_patients rows;
\* in every row heart_rate is in [50, 160], oxygen_level in [80, 100], temperature
\* in [35.0, 42.0], blood_pressure in [80, 180] and respiratory_rate in [10, 40],
\* and each row is also within the clamp bounds of a snapshot.
C19_DatasetRowsWithinRanges ==
    ret.op = "generate_patient_dataset" =>
        /\ ret.kind = "return"
        /\ Len(ret.result) = ret.n_patients
        /\ \A k \in 1..Len(ret.result) :
              /\ WithinOperatingRanges(ret.result[k])
              /\ WithinClampBounds(ret.result[k])

\* a table of the largest size with a vital on the low edge of its range in one
\* row and a vital on the high edge in another
C19_Witness ==
    /\ ret.op = "generate_patient_dataset"
    /\ ret.n_patients = MaxPatients
    /\ Len(ret.result) = MaxPatients
    /\ \E j, k \in 1..Len(ret.result) :
          /\ j # k
          /\ ret.result[j].heart_rate = D(50,0)
          /\ ret.result[k].respiratory_rate = D(40,0)

\* the weighted sum of one row before the clamp
RowSum(row) ==
    weighted_sum(<<row.heart_rate>>, <<row.oxygen_level>>, <<row.temperature>>,
                 <<row.blood_pressure>>, <<row.respiratory_rate>>)[1]

\* C20: for vitals inside the dataset operating ranges (heart_rate 50..160,
\* oxygen_level 80..100, temperature 35..42, blood_pressure 80..180,
\* respiratory_rate 10..40) the weighted sum before the clamp lies in [0, 0.94]:
\* the clamp to [0, 1] leaves it as it is, and no dataset row is labelled 1.0.
C20_RangeSumNeedsNoClamp ==
    /\ (ret.op = "risk_score" /\ WithinOperatingRanges(ret)) =>
          /\ 0 <= ret.sum
          /\ ret.sum <= Times(94, ONE)
          /\ ret.result = ret.sum
    /\ ret.op = "generate_patient_dataset" =>
          \A k \in 1..Len(ret.result) :
             /\ 0 <= RowSum(ret.result[k])
             /\ RowSum(ret.result[k]) <= Times(94, ONE)
             /\ ret.result[k].risk_score = RowSum(ret.result[k])
             /\ ret.result[k].risk_score < ONE

\* the corner of the operating ranges farthest from the centres is scored: the
\* sum is 0.94 and the clamp returns it unchanged
C20_Witness ==
    /\ ScoredAt(D(160,0), D(80,0), D(42,0), D(180,0), D(40,0))
    /\ WithinOperatingRanges(ret)
    /\ ret.sum = Times(94, ONE)
    /\ ret.result = ret.sum

\* C21: after k >= 1 runs of the Live Monitoring page in one session the buffer
\* holds exactly min(k, 60) rows, and they are the last min(k, 60) rows appended,
\* in arrival order: each run put its snapshot at the end and only the oldest
\* rows were dropped; the row the last run read for its prediction is the row
\* that run appended.
C21_BufferKeepsNewestSixty ==
    runs >= 1 =>
        LET n == IF runs < 60 THEN runs ELSE 60
        IN /\ Len(appended) = runs
           /\ Len(live_data.rows) = n
           /\ live_data.rows = SubSeq(appended, runs - n + 1, runs)
           /\ live_data.rows[n] = appended[runs]
           /\ shown.latest = appended[runs]
           /\ shown.kind = "return" =>
                 shown.vector = <<appended[runs].heart_rate, appended[runs].oxygen_level,
                                  appended[runs].temperature, appended[runs].blood_pressure,
                                  appended[runs].respiratory_rate>>

\* the page has run more often than the buffer has room: 60 rows are held, the
\* first row appended is gone, and the prediction shown is for the newest row,
\* which differs from the oldest one held
C21_Witness ==
    /\ runs > 60
    /\ Len(live_data.rows) = 60
    /\ live_data.rows[1] # appended[1]
    /\ live_data.rows[1] = appended[runs - 59]
    /\ live_data.rows[1].timestamp < live_data.rows[60].timestamp
    /\ shown.kind = "return"
    /\ shown.latest = live_data.rows[60]

\* C22: generate_vital_snapshot treats every risk_level other than "normal" and
\* "warning" as the critical tier: an unlisted, empty or differently-cased string
\* ("Normal", "safe", "") is neither rejected nor taken for normal; its vitals
\* are drawn around the critical means 130, 88, 39.0, 170 and 30 with the
\* critical spreads, then clamped like any snapshot.
C22_UnlistedLevelIsCritical ==
    (ret.op = "generate_vital_snapshot" /\ ret.risk_level \notin {"normal", "warning"}) =>
        LET z == ret.draws
            critical == [heart_rate       |-> D(130,0) + D(15,0) * z[1],
                         oxygen_level     |-> D(88,0)  + D(3,0)  * z[2],
                         temperature      |-> D(39,0)  + D(0,6)  * z[3],
                         blood_pressure   |-> D(170,0) + D(15,0) * z[4],
                         respiratory_rate |-> D(30,0)  + D(4,0)  * z[5]]
        IN /\ ret.kind = "return"
           /\ ret.raw = critical
           /\ ret.raw = RawVitals("critical", z)
           /\ ret.raw # RawVitals("normal", z)
           /\ ret.result.heart_rate       = Clip(critical.heart_rate, D(40,0), D(200,0))
           /\ ret.result.oxygen_level     = Clip(critical.oxygen_level, D(70,0), D(100,0))
           /\ ret.result.temperature      = Clip(critical.temperature, D(34,0), D(42,0))
           /\ ret.result.blood_pressure   = Clip(critical.blood_pressure, D(60,0), D(200,0))
           /\ ret.result.respiratory_rate = Clip(critical.respiratory_rate, D(8,0), D(45,0))

\* a snapshot asked for with the empty string, every draw at its mean: the
\* critical means come back
C22_Witness ==
    /\ ret.op = "generate_vital_snapshot"
    /\ ret.risk_level = ""
    /\ ret.draws = <<0, 0, 0, 0, 0>>
    /\ ret.result.heart_rate = D(130,0)
    /\ ret.result.oxygen_level = D(88,0)
    /\ ret.result.temperature = D(39,0)
    /\ ret.result.blood_pressure = D(170,0)
    /\ ret.result.respiratory_rate = D(30,0)

\* C23: a failed model load is not remembered.  The step on which a call fails
\* to load the artifact leaves _MODEL_CACHE unset; every call that starts while
\* it is unset, however many loads failed before, goes on to joblib.load again;
\* and once a call has returned after such failures the cache holds the object
\* that call loaded, which is the model on disk, and the call's result is the
\* normal one.
C23_FailedLoadNotRemembered ==
    /\ [][\A t \in Threads :
            /\ (pc[t] = "load" /\ pc'[t] # "load" /\ artifact.state # "ok") =>
                  /\ out'[t].kind = "raise"
                  /\ MODEL_CACHE' = None
            /\ (load_failed /\ pc[t] = "check" /\ pc'[t] # "check" /\ MODEL_CACHE = None) =>
                  pc'[t] = "load"
            /\ (load_failed /\ pc[t] = "load" /\ pc'[t] # "load") => attempts'[t] = 1]_vars
    /\ [](\A t \in Threads :
            /\ (load_failed /\ loads = 0) => MODEL_CACHE = None
            /\ (load_failed /\ out[t].kind = "return") =>
                  /\ loads = 1
                  /\ MODEL_CACHE = Unpickle(Saved(trained), 1)
                  /\ out[t].model = MODEL_CACHE
                  /\ out[t] = [kind |-> "return", op |-> "load_model",
                               model |-> MODEL_CACHE, result |-> MODEL_CACHE]
                     \/ out[t] = Outcome(MODEL_CACHE, call[t]))

\* after a load that failed, a prediction has returned from the model loaded by
\* a later call
C23_Witness ==
    /\ load_failed
    /\ Predicted(Main)
    /\ attempts[Main] = 1
    /\ loads = 1
    /\ MODEL_CACHE = Unpickle(Saved(trained), 1)
    /\ out[Main].model = MODEL_CACHE

=============================================================================
